---- MODULE Spec2Model ----
(***************************************************************************)
(* Model of ml/api_bridge.py: the JSON bridge between the PHP front end    *)
(* and the crop recommendation model.  One run of main() reads one JSON    *)
(* document from standard input, checks that the pickled model exists,     *)
(* loads it, predicts, optionally fetches the feature importance, prints   *)
(* one JSON response and terminates.                                       *)
(*                                                                         *)
(* JSON values are represented by their JSON text ("1", "true", "null",    *)
(* "\"x\""), so that values of different JSON types stay comparable.       *)
(***************************************************************************)
EXTENDS Integers, Sequences, FiniteSets, TLC

VARIABLES stdin, fs, pc, features, model_type, predictions,
          feature_importance, calls, stdout, exit_code, raised

vars == <<stdin, fs, pc, features, model_type, predictions,
          feature_importance, calls, stdout, exit_code, raised>>

(***************************************************************************)
(* Bounds of the model.                                                    *)
(***************************************************************************)
MaxNum == 1
MaxPredictions == 2
MaxImportance == 1

(***************************************************************************)
(* The request.                                                            *)
(***************************************************************************)
FeatureKeys == {"N", "P", "K", "temperature", "humidity", "ph", "rainfall"}

RequestKeys == FeatureKeys \cup {"model_type", "include_importance"}

\* A key the JSON object does not hold.
ABSENT == "<absent>"

NumberTexts == {ToString(n) : n \in 1..MaxNum}

FeatureValues == NumberTexts \cup {"\"x\""}

ModelTypeValues == {ABSENT, "\"xgboost\""}

IncludeValues == {ABSENT, "true", "false", "\"no\""}

\* The JSON objects fed to the bridge: any subset of the feature keys is
\* present, the present ones hold the same number or the same string.
RequestObjects ==
    { [k \in RequestKeys |->
          IF k \in FeatureKeys THEN (IF k \in present THEN v ELSE ABSENT)
          ELSE IF k = "model_type" THEN mt
          ELSE inc] :
        present \in SUBSET FeatureKeys, v \in FeatureValues,
        mt \in ModelTypeValues, inc \in IncludeValues }

EmptyObject == [k \in RequestKeys |-> ABSENT]

\* What standard input holds: text that is not JSON, a JSON document that
\* is not an object (a list), or a JSON object.
StdinDocuments ==
    { [valid |-> FALSE, isObject |-> FALSE, obj |-> EmptyObject],
      [valid |-> TRUE, isObject |-> FALSE, obj |-> EmptyObject] }
    \cup { [valid |-> TRUE, isObject |-> TRUE, obj |-> o] : o \in RequestObjects }

\* dict.get(key, default)
GetNoDefault(obj, key, default) == IF obj[key] = ABSENT THEN "null" ELSE obj[key]

Get(obj, key, default) == IF obj[key] = ABSENT THEN default ELSE obj[key]

\* The truth value Python's `if` gives a JSON value.
TruthyNotNone(v) == v # "null"

Truthy(v) == v \notin {"false", "null", "0", "\"\"", "[]", "{}"}

(***************************************************************************)
(* The file system: the pickled model next to the script.                  *)
(***************************************************************************)
MODEL_PATH == "ml/crop_ml_models.pkl"

\* fs is "present", "absent" (never there) or "removed" (deleted during the run)

PathExistsAlways(f) == TRUE

\* os.path.exists(model_path)
PathExists(f) == f = "present"

(***************************************************************************)
(* Raised conditions.                                                      *)
(***************************************************************************)
NoException == [type |-> "None", msg |-> "", code |-> 0, at |-> ""]

Exc(type, msg, at) == [type |-> type, msg |-> msg, code |-> 0, at |-> at]

SysExitZero(code, at) == [type |-> "SystemExit", msg |-> "", code |-> 0, at |-> at]

\* sys.exit(code)
SysExit(code, at) == [type |-> "SystemExit", msg |-> "", code |-> code, at |-> at]

IsFileNotFoundOrValueError(type) ==
    type \in {"FileNotFoundError", "ValueError", "JSONDecodeError"}

IsFileNotFoundNever(type) == FALSE

\* except FileNotFoundError
IsFileNotFound(type) == type = "FileNotFoundError"

IsExceptionBare(type) == TRUE

\* except Exception: SystemExit derives from BaseException only
IsException(type) == type # "SystemExit"

PARSE_MSG == "Expecting value: line 1 column 1 (char 0)"
ATTRIBUTE_MSG == "'list' object has no attribute 'get'"
SERIALIZE_MSG == "Object of type ndarray is not JSON serializable"
FLOAT_MSG == "could not convert string to float: 'n/a'"

(***************************************************************************)
(* Responses.  keys is the set of keys of the JSON object printed.         *)
(***************************************************************************)
NoneFI == [isNone |-> TRUE, val |-> <<>>]

ErrorResponse(keys, error, message) ==
    [keys |-> keys, success |-> FALSE, error |-> error, message |-> message,
     predictions |-> <<>>, top_recommendation |-> "None",
     feature_importance |-> NoneFI]

MissingResponse ==
    ErrorResponse({"success", "error", "message"},
                  "ML model file not found at " \o MODEL_PATH,
                  "Please train the models first: python ml/crop_recommendation_ml.py train")

NotTrainedResponse ==
    ErrorResponse({"success", "error", "message"},
                  "ML models not trained. Please run training script first.",
                  "Run: python ml/crop_recommendation_ml.py train")

GenericResponse(msg) == ErrorResponse({"success", "error"}, msg, "")

SuccessResponseTail(preds, fi) ==
    [keys |-> {"success", "predictions", "top_recommendation", "feature_importance"},
     success |-> TRUE, error |-> "", message |-> "",
     predictions |-> IF preds # <<>> THEN Tail(preds) ELSE preds,
     top_recommendation |-> IF preds # <<>> THEN preds[1] ELSE "None",
     feature_importance |-> fi]

SuccessResponse(preds, fi) ==
    [keys |-> {"success", "predictions", "top_recommendation", "feature_importance"},
     success |-> TRUE, error |-> "", message |-> "",
     predictions |-> preds,
     top_recommendation |-> IF preds # <<>> THEN preds[1] ELSE "None",
     feature_importance |-> fi]

(***************************************************************************)
(* The model service (crop_recommendation_ml.CropRecommendationML).        *)
(***************************************************************************)
SeqsUpTo(S, n) == UNION { [1..m -> S] : m \in 0..n }

\* A prediction record; "<ndarray>" is one json.dumps cannot encode.
PredictionRecords == {"rice", "maize", "<ndarray>"}

PredictReturns == SeqsUpTo(PredictionRecords, MaxPredictions)

DelegateRaises(at) ==
    { Exc("FileNotFoundError", "[Errno 2] No such file or directory", at),
      Exc("ValueError", "delegate failed", at) }

ImportancePairs == { <<"N", "3">>, <<"ph", "n/a">> }

ImportanceReturns == SeqsUpTo(ImportancePairs, MaxImportance)

\* float(x) succeeds on numbers
Floatable(x) == x \in {"3", "0.5"}

Float(x) == IF x = "3" THEN "3.0" ELSE x

\* json.dumps succeeds on the response
Serializable(preds) == \A i \in 1..Len(preds) : preds[i] # "<ndarray>"

NoFeatures == [k \in FeatureKeys |-> ABSENT]

LoadCall == [fn |-> "load_models", path |-> MODEL_PATH, features |-> NoFeatures,
             model_type |-> "", ident |-> ""]

PredictCall(f, mt) == [fn |-> "predict", path |-> "", features |-> f,
                       model_type |-> mt, ident |-> ""]

ImportanceArgFromRequest == model_type

ImportanceArg == "\"random_forest\""

ImportanceCall == [fn |-> "get_feature_importance", path |-> "",
                   features |-> NoFeatures, model_type |-> "", ident |-> ImportanceArg]

(***************************************************************************)
(* main()                                                                  *)
(***************************************************************************)
Init ==
    /\ stdin \in StdinDocuments
    /\ fs \in {"present", "absent"}
    /\ pc = "parse"
    /\ features = NoFeatures
    /\ model_type = ""
    /\ predictions = <<>>
    /\ feature_importance = NoneFI
    /\ calls = <<>>
    /\ stdout = <<>>
    /\ exit_code = 0
    /\ raised = NoException

\* A condition e leaves the try block after `out` was printed: the first
\* matching except clause prints its response and calls sys.exit(1); a
\* SystemExit matches neither clause and ends the process with its code.
Raise(out, e) ==
    /\ raised' = e
    /\ pc' = "done"
    /\ IF IsFileNotFound(e.type)
         THEN /\ stdout' = Append(out, NotTrainedResponse)
              /\ exit_code' = SysExit(1, "handler").code
         ELSE IF IsException(e.type)
           THEN /\ stdout' = Append(out, GenericResponse(e.msg))
                /\ exit_code' = SysExit(1, "handler").code
           ELSE /\ stdout' = out
                /\ exit_code' = e.code

\* input_data = json.load(sys.stdin)
Parse ==
    /\ pc = "parse"
    /\ IF stdin.valid
         THEN /\ pc' = "construct"
              /\ UNCHANGED <<stdout, exit_code, raised>>
         ELSE Raise(stdout, Exc("JSONDecodeError", PARSE_MSG, "parse"))
    /\ UNCHANGED <<stdin, fs, features, model_type, predictions,
                   feature_importance, calls>>

\* ml = CropRecommendationML()
Construct ==
    /\ pc = "construct"
    /\ \/ /\ pc' = "check"
          /\ UNCHANGED <<stdout, exit_code, raised>>
       \/ \E e \in DelegateRaises("construct") : Raise(stdout, e)
    /\ UNCHANGED <<stdin, fs, features, model_type, predictions,
                   feature_importance, calls>>

\* if not os.path.exists(model_path): print the response, sys.exit(1)
CheckModel ==
    /\ pc = "check"
    /\ IF ~PathExists(fs)
         THEN Raise(Append(stdout, MissingResponse), SysExit(1, "check"))
         ELSE /\ pc' = "load"
              /\ UNCHANGED <<stdout, exit_code, raised>>
    /\ UNCHANGED <<stdin, fs, features, model_type, predictions,
                   feature_importance, calls>>

\* ml.load_models(model_path)
Load ==
    /\ pc = "load"
    /\ calls' = Append(calls, LoadCall)
    /\ IF fs # "present"
         THEN Raise(stdout, Exc("FileNotFoundError",
                                "[Errno 2] No such file or directory", "load"))
         ELSE \/ /\ pc' = "features"
                 /\ UNCHANGED <<stdout, exit_code, raised>>
              \/ Raise(stdout, Exc("UnpicklingError", "invalid load key", "load"))
    /\ UNCHANGED <<stdin, fs, features, model_type, predictions,
                   feature_importance>>

\* features = {...}; model_type = input_data.get('model_type', 'ensemble')
BuildFeatures ==
    /\ pc = "features"
    /\ IF stdin.isObject
         THEN /\ features' = [k \in FeatureKeys |-> Get(stdin.obj, k, "0")]
              /\ model_type' = Get(stdin.obj, "model_type", "\"ensemble\"")
              /\ pc' = "predict"
              /\ UNCHANGED <<stdout, exit_code, raised>>
         ELSE /\ Raise(stdout, Exc("AttributeError", ATTRIBUTE_MSG, "features"))
              /\ UNCHANGED <<features, model_type>>
    /\ UNCHANGED <<stdin, fs, predictions, feature_importance, calls>>

\* predictions = ml.predict(features, model_type=model_type)
Predict ==
    /\ pc = "predict"
    /\ calls' = Append(calls, PredictCall(features, model_type))
    /\ \/ \E p \in PredictReturns :
            /\ predictions' = p
            /\ pc' = "importance"
            /\ UNCHANGED <<stdout, exit_code, raised>>
       \/ \E e \in DelegateRaises("predict") :
            /\ Raise(stdout, e)
            /\ UNCHANGED predictions
    /\ UNCHANGED <<stdin, fs, features, model_type, feature_importance>>

\* feature_importance = None; if input_data.get('include_importance', False): ...
Importance ==
    /\ pc = "importance"
    /\ IF Truthy(Get(stdin.obj, "include_importance", "false"))
         THEN /\ calls' = Append(calls, ImportanceCall)
              /\ \/ \E r \in ImportanceReturns :
                      IF \A i \in 1..Len(r) : Floatable(r[i][2])
                        THEN /\ feature_importance' =
                                  [isNone |-> FALSE,
                                   val |-> [i \in 1..Len(r) |->
                                              [feature |-> r[i][1],
                                               importance |-> Float(r[i][2])]]]
                             /\ pc' = "respond"
                             /\ UNCHANGED <<stdout, exit_code, raised>>
                        ELSE /\ Raise(stdout, Exc("ValueError", FLOAT_MSG, "importance"))
                             /\ UNCHANGED feature_importance
                 \/ \E e \in DelegateRaises("importance") :
                      /\ Raise(stdout, e)
                      /\ UNCHANGED feature_importance
         ELSE /\ feature_importance' = NoneFI
              /\ pc' = "respond"
              /\ UNCHANGED <<calls, stdout, exit_code, raised>>
    /\ UNCHANGED <<stdin, fs, features, model_type, predictions>>

\* response = {...}; print(json.dumps(response))
Respond ==
    /\ pc = "respond"
    /\ IF Serializable(predictions)
         THEN /\ stdout' = Append(stdout, SuccessResponse(predictions, feature_importance))
              /\ pc' = "done"
              /\ UNCHANGED <<exit_code, raised>>
         ELSE Raise(stdout, Exc("TypeError", SERIALIZE_MSG, "respond"))
    /\ UNCHANGED <<stdin, fs, features, model_type, predictions,
                   feature_importance, calls>>

\* The environment deletes the model file before the bridge has loaded it.
RemoveModelFile ==
    /\ fs = "present"
    /\ pc \in {"parse", "construct", "check", "load"}
    /\ fs' = "removed"
    /\ UNCHANGED <<stdin, pc, features, model_type, predictions,
                   feature_importance, calls, stdout, exit_code, raised>>

Next ==
    \/ Parse
    \/ Construct
    \/ CheckModel
    \/ Load
    \/ BuildFeatures
    \/ Predict
    \/ Importance
    \/ Respond
    \/ RemoveModelFile

Spec == Init /\ [][Next]_vars

(***************************************************************************)
(* Properties.                                                             *)
(***************************************************************************)
Done == pc = "done"

\* The JSON object of standard input, as the request sent it.
Request == stdin.obj

IsJsonObject == stdin.valid /\ stdin.isObject

\* The names of the delegates called so far, in order.
CallNames == [i \in 1..Len(calls) |-> calls[i].fn]

Called(fn) == \E i \in 1..Len(calls) : calls[i].fn = fn

HasMessage(r) == "message" \in r.keys

\* The response carries a feature_importance that is not null.
HasImportance(r) ==
    "feature_importance" \in r.keys /\ ~r.feature_importance.isNone

\* include_importance holds a value Python takes for true.
IncludeRequested ==
    Request["include_importance"] \notin {ABSENT, "false", "null", "0", "\"\""}

RequestIsNumber(k) == Request[k] \in {ToString(n) : n \in 0..MaxNum}

\* C1: nothing is printed before the run ends, and a run that has ended
\* has printed exactly one response document, whatever path it took.
C1_ExactlyOneDocument ==
    /\ Len(stdout) <= 1
    /\ Done => Len(stdout) = 1
    /\ ~Done => Len(stdout) = 0

\* The exit of the missing-model branch passed both handlers.
C1_Witness ==
    /\ Done
    /\ raised.type = "SystemExit"
    /\ raised.at = "check"
    /\ Len(stdout) = 1

\* C2: the exit code is 0 exactly when the response printed has success
\* true; a run in which a condition was raised prints success false and
\* exits with 1.
C2_ExitCodeMatchesSuccess ==
    Done =>
        /\ Len(stdout) = 1
        /\ exit_code \in {0, 1}
        /\ (exit_code = 0) <=> stdout[1].success
        /\ raised.type # "None" => (~stdout[1].success /\ exit_code = 1)

C2_Witness ==
    /\ Done
    /\ exit_code = 0
    /\ Len(stdout) = 1
    /\ stdout[1].success
    /\ raised.type = "None"

\* C3 as stated: when the model file does not exist, whatever standard
\* input holds, the response is the model-file-missing one, the exit code
\* is 1 and neither load nor predict is called.
C3_MissingModelAnyInput ==
    (Done /\ fs = "absent") =>
        /\ stdout = <<MissingResponse>>
        /\ HasMessage(stdout[1])
        /\ exit_code = 1
        /\ ~Called("load_models")
        /\ ~Called("predict")

\* C3 amended: the same, for every standard input that parses as JSON,
\* once the model service is constructed.
C3_MissingModelValidInput ==
    (Done /\ fs = "absent" /\ stdin.valid /\ raised.at # "construct") =>
        /\ stdout = <<MissingResponse>>
        /\ ~stdout[1].success
        /\ {"error", "message"} \subseteq stdout[1].keys
        /\ exit_code = 1
        /\ ~Called("load_models")
        /\ ~Called("predict")

C3_Witness ==
    /\ Done
    /\ fs = "absent"
    /\ IsJsonObject
    /\ stdout = <<MissingResponse>>
    /\ calls = <<>>

\* C4: standard input that is not JSON gives the response with success
\* false and the parser's description as error, without a message key,
\* exit code 1 and no delegate call, whether the model file exists or not.
C4_MalformedInput ==
    (Done /\ ~stdin.valid) =>
        /\ Len(stdout) = 1
        /\ ~stdout[1].success
        /\ stdout[1].keys = {"success", "error"}
        /\ stdout[1].error = PARSE_MSG
        /\ exit_code = 1
        /\ calls = <<>>

C4_Witness ==
    /\ Done
    /\ ~stdin.valid
    /\ fs = "present"
    /\ raised.type = "JSONDecodeError"

\* C5 as stated: a condition of any kind raised by predict or by the
\* feature importance gives the generic response (the condition's
\* description as error, no message key) and exit code 1; the response
\* with the retraining hint is printed only for the missing model file
\* and for a not-found condition raised by load.
C5_DelegateFailureIsGeneric ==
    Done =>
        /\ raised.at \in {"predict", "importance"} =>
              /\ Len(stdout) = 1
              /\ ~stdout[1].success
              /\ stdout[1].keys = {"success", "error"}
              /\ stdout[1].error = raised.msg
              /\ exit_code = 1
        /\ (Len(stdout) = 1 /\ HasMessage(stdout[1])) =>
              \/ raised.at = "check"
              \/ raised.at = "load" /\ raised.type = "FileNotFoundError"

\* C6: a not-found condition raised by load, after the existence check
\* passed, gives the models-not-trained response with its fixed error
\* string and the retraining hint, exit code 1, and neither predict nor
\* the feature importance is called.
C6_LoadNotFound ==
    (Done /\ raised.at = "load" /\ raised.type = "FileNotFoundError") =>
        /\ Len(stdout) = 1
        /\ ~stdout[1].success
        /\ stdout[1].keys = {"success", "error", "message"}
        /\ stdout[1].error = "ML models not trained. Please run training script first."
        /\ stdout[1].message = "Run: python ml/crop_recommendation_ml.py train"
        /\ exit_code = 1
        /\ CallNames = <<"load_models">>

C6_Witness ==
    /\ Done
    /\ fs = "removed"
    /\ raised.at = "load"
    /\ raised.type = "FileNotFoundError"
    /\ CallNames = <<"load_models">>

AllFeaturesPresent == \A k \in FeatureKeys : Request[k] # ABSENT

\* load_models was called and returned.
LoadReturned == Called("load_models") /\ raised.at # "load"

C8_ImportanceIffRequested ==
    (Done /\ Len(stdout) = 1) =>
        /\ HasImportance(stdout[1]) <=>
              /\ Request["include_importance"] = "true"
              /\ raised.type = "None" \/ raised.at \in {"importance", "respond"}
        /\ Request["include_importance"] \in {ABSENT, "false"} =>
              /\ ~Called("get_feature_importance")
              /\ stdout[1].success =>
                    /\ "feature_importance" \in stdout[1].keys
                    /\ stdout[1].feature_importance.isNone

\* C8 amended: the response has a non-null feature_importance exactly when
\* include_importance holds a value Python takes for true and the run
\* printed the success response (no step raised, the feature importance
\* step and the serialization included); otherwise the delegate is not
\* called on a falsy or absent include_importance and the success response
\* has feature_importance null.
C8_ImportanceIffRequestedAndSuccess ==
    (Done /\ Len(stdout) = 1) =>
        /\ HasImportance(stdout[1]) <=> (IncludeRequested /\ stdout[1].success)
        /\ ~IncludeRequested =>
              /\ ~Called("get_feature_importance")
              /\ stdout[1].success =>
                    /\ "feature_importance" \in stdout[1].keys
                    /\ stdout[1].feature_importance.isNone

C8_Witness ==
    /\ Done
    /\ Len(stdout) = 1
    /\ Request["include_importance"] = "true"
    /\ HasImportance(stdout[1])
    /\ Len(stdout[1].feature_importance.val) = 1
    /\ stdout[1].feature_importance.val[1].importance = "3.0"

\* The features of every predict call made so far satisfy P.
PredictedWith(P(_, _)) ==
    \A i \in 1..Len(calls) :
        calls[i].fn = "predict" => \A k \in FeatureKeys : P(calls[i].features, k)

NumberOrZero(f, k) == f[k] = IF RequestIsNumber(k) THEN Request[k] ELSE "0"

PresentOrZero(f, k) == f[k] = IF Request[k] # ABSENT THEN Request[k] ELSE "0"

\* The empty object raises nothing while the features are built.
EmptyRequestBuilds == (IsJsonObject /\ Request = EmptyObject) => raised.at # "features"

\* C9 as stated: each feature handed to predict is the request's value
\* when that is a number and 0 when the key is absent or holds something
\* that is not a number; the empty object raises no error.
C9_FeaturesNumberOrZero == PredictedWith(NumberOrZero) /\ EmptyRequestBuilds

\* C9 amended: each feature handed to predict is the request's value for
\* the key whenever the key is present, whatever the value's shape, and 0
\* only when the key is absent; the empty object raises no error and is
\* predicted with seven zeros.
C9_FeaturesPresentOrZero == PredictedWith(PresentOrZero) /\ EmptyRequestBuilds

C9_Witness ==
    /\ Called("predict")
    /\ \E k \in FeatureKeys : Request[k] = "\"x\"" /\ calls[2].features[k] = "\"x\""
    /\ \E k \in FeatureKeys : Request[k] = ABSENT /\ calls[2].features[k] = "0"

\* The calls made so far are a prefix of load, predict, feature importance
\* with the arguments the bridge is to pass.
CallsArePrefix ==
    /\ Len(calls) <= 3
    /\ Len(calls) >= 1 =>
          calls[1].fn = "load_models" /\ calls[1].path = "ml/crop_ml_models.pkl"
    /\ Len(calls) >= 2 =>
          /\ calls[2].fn = "predict"
          /\ calls[2].features = features
          /\ calls[2].model_type =
                IF Request["model_type"] = ABSENT THEN "\"ensemble\""
                ELSE Request["model_type"]
    /\ Len(calls) = 3 =>
          /\ calls[3].fn = "get_feature_importance"
          /\ calls[3].ident = "\"random_forest\""

\* C10 as stated: the calls are such a prefix and the third call is made
\* only when include_importance is true.
C10_CallSequence ==
    /\ CallsArePrefix
    /\ Len(calls) = 3 => Request["include_importance"] = "true"

\* C10 amended: the calls are such a prefix and the third call is made only
\* when include_importance holds a value Python takes for true (true, but
\* also a non-empty string or a non-zero number).
C10_CallSequenceTruthy ==
    /\ CallsArePrefix
    /\ Len(calls) = 3 => IncludeRequested

C10_Witness ==
    /\ Len(calls) = 3
    /\ Request["model_type"] = "\"xgboost\""
    /\ Request["include_importance"] = "true"
    /\ calls[2].model_type = "\"xgboost\""
    /\ calls[3].ident = "\"random_forest\""

====
